---- MODULE Spec2Model ----
(***************************************************************************)
(* Model of the survey cleaning pipeline:                                  *)
(*   clean_exogenous_data.py  (clean_exogenous_dataset and its encoders)   *)
(*   merge_regional_data.py   (merge_regional_data, update_data_dictionary)*)
(*                                                                         *)
(* Cells.  A numeric cell (float64) is a record [kind, num, den]: a finite *)
(* value is the reduced fraction num/den, and NaN, +inf, -inf are the IEEE *)
(* special values numpy produces.  Arithmetic on finite values is exact.   *)
(* A label cell (a whole answer text looked up in a dict) is a string, and *)
(* a free-text cell that the code scans with a regular expression is a     *)
(* sequence of one-character strings.  The missing text cell (pandas NaN,  *)
(* an empty CSV field) is NA for labels and NoText for scanned texts.      *)
(***************************************************************************)
EXTENDS Integers, Sequences, FiniteSets, TLC

VARIABLES
    primary,      \* exogenous_variables_dataset.csv : [columns, rows]
    original,     \* 'Data_Wave2 (1).csv' : [columns, rows], its Q1 column
    regions,      \* Regions.csv : [columns, rows]
    regions_bytes,\* Regions.csv : which codecs decode its bytes
    fs,           \* the four output files, each <<>> (absent) or <<content>>
    job,          \* "none", "clean" or "merge": the script that is running
    pc,           \* position of the running script; "idle", "done" or
                  \* "failed" (how the last run ended) when none runs
    df,           \* clean: the frame read from primary; merge: df_clean
    q1_data,      \* clean: the Q1 column after iloc[2:].reset_index
    df_clean,     \* clean: the frame under construction
    df_regions,   \* merge: region frame (raw, then aggregated and renamed)
    df_merged,    \* merge: the joined frame
    tried         \* merge: the encodings read_csv was called with, in order

vars == <<primary, original, regions, regions_bytes, fs, job, pc, df, q1_data,
          df_clean, df_regions, df_merged, tried>>

-----------------------------------------------------------------------------
(* Bounds of the model *)

MaxRows == 2        \* rows of the primary response table
MaxRegionRows == 2  \* rows of the region table
MaxStrLen == 5      \* characters of an income text
MaxPad == 1         \* characters around a keyword in a qualification text
MaxDictRows == 11   \* rows of a table whose dictionary is examined

-----------------------------------------------------------------------------
(* Numeric cells *)

NA == ""
NoText == <<>>

Abs(n) == IF n < 0 THEN -n ELSE n

RECURSIVE Gcd(_, _)
Gcd(a, b) == IF b = 0 THEN a ELSE Gcd(b, a % b)

NaN == [kind |-> "nan", num |-> 0, den |-> 1]
PosInf == [kind |-> "inf", num |-> 1, den |-> 0]
NegInf == [kind |-> "inf", num |-> -1, den |-> 0]

\* the float num/den, den # 0, reduced and with a positive denominator
Frac(n, d) ==
    LET g == Gcd(Abs(n), Abs(d))
        s == IF d < 0 THEN -1 ELSE 1
    IN  [kind |-> "num", num |-> (s * n) \div g, den |-> (s * d) \div g]

Num(n) == Frac(n, 1)

\* pd.isna / Series.isnull on a numeric cell
isna(v) == v.kind = "nan"

IsFinite(v) == v.kind = "num"

Sign(v) == IF v.num > 0 THEN 1 ELSE IF v.num < 0 THEN -1 ELSE 0

\* float64 addition
FAdd(a, b) ==
    IF isna(a) \/ isna(b) THEN NaN
    ELSE IF a.kind = "inf" /\ b.kind = "inf"
         THEN (IF a.num = b.num THEN a ELSE NaN)
    ELSE IF a.kind = "inf" THEN a
    ELSE IF b.kind = "inf" THEN b
    ELSE Frac(a.num * b.den + b.num * a.den, a.den * b.den)

\* float64 multiplication
FMul(a, b) ==
    IF isna(a) \/ isna(b) THEN NaN
    ELSE IF a.kind = "inf" \/ b.kind = "inf"
         THEN (IF Sign(a) * Sign(b) = 0 THEN NaN
               ELSE IF Sign(a) * Sign(b) > 0 THEN PosInf ELSE NegInf)
    ELSE Frac(a.num * b.num, a.den * b.den)

\* float64 division as numpy does it: x/0 is +-inf, 0/0 is NaN, no exception
FDiv(a, b) ==
    IF isna(a) \/ isna(b) THEN NaN
    ELSE IF a.kind = "inf"
         THEN (IF b.kind = "inf" THEN NaN
               ELSE IF Sign(a) * (IF Sign(b) < 0 THEN -1 ELSE 1) > 0
                    THEN PosInf ELSE NegInf)
    ELSE IF b.kind = "inf" THEN Num(0)
    ELSE IF b.num = 0
         THEN (IF a.num = 0 THEN NaN
               ELSE IF a.num > 0 THEN PosInf ELSE NegInf)
    ELSE Frac(a.num * b.den, a.den * b.num)

-----------------------------------------------------------------------------
(* Series helpers *)

RECURSIVE SeqsUpTo(_, _)
\* all sequences over S of length 1..n
SeqsUpTo(S, n) ==
    IF n = 0 THEN {}
    ELSE IF n = 1 THEN {<<x>> : x \in S}
    ELSE LET shorter == SeqsUpTo(S, n - 1)
         IN  shorter \cup {Append(s, x) : s \in {t \in shorter : Len(t) = n - 1}, x \in S}

-----------------------------------------------------------------------------
(* clean_exogenous_data.py: the column functions *)

\* Series.map(mapping) for a dict: a key of the dict gives its value, any
\* other cell (a missing one included) gives `missing`
DictGet(mapping, key, missing) ==
    IF key \in DOMAIN mapping THEN mapping[key] ELSE missing

work_hours_mapping ==
    [k \in {"0 Stunden", "1-10 Stunden", "11-20 Stunden", "21-30 Stunden",
            "31-40 Stunden", "41-50 Stunden", "Mehr als 50 Stunden",
            "Nicht erwerbstätig"} |->
        CASE k = "0 Stunden" -> Num(0)
          [] k = "1-10 Stunden" -> Frac(11, 2)
          [] k = "11-20 Stunden" -> Frac(31, 2)
          [] k = "21-30 Stunden" -> Frac(51, 2)
          [] k = "31-40 Stunden" -> Frac(71, 2)
          [] k = "41-50 Stunden" -> Frac(91, 2)
          [] k = "Mehr als 50 Stunden" -> Num(55)
          [] k = "Nicht erwerbstätig" -> Num(0)]

\* a plausible slip: unknown categories counted as zero hours
encode_respondent_work_hours_zero(series) ==
    [i \in 1..Len(series) |-> DictGet(work_hours_mapping, series[i], Num(0))]

encode_respondent_work_hours(series) ==
    [i \in 1..Len(series) |-> DictGet(work_hours_mapping, series[i], NaN)]

q1_mapping == [k \in {"Ja", "Nein"} |-> IF k = "Ja" THEN "Yes" ELSE "No"]

Digits == {"0", "1", "2", "3", "4", "5", "6", "7", "8", "9"}

DigitVal(c) ==
    CASE c = "0" -> 0 [] c = "1" -> 1 [] c = "2" -> 2 [] c = "3" -> 3
      [] c = "4" -> 4 [] c = "5" -> 5 [] c = "6" -> 6 [] c = "7" -> 7
      [] c = "8" -> 8 [] c = "9" -> 9

RECURSIVE FindDigitRuns(_, _, _, _)
\* re.findall(r'\d+', s): the maximal digit runs of s, left to right.
\* i is the scan position, cur the run being read, acc the runs found.
FindDigitRuns(s, i, cur, acc) ==
    IF i > Len(s)
    THEN (IF cur = <<>> THEN acc ELSE Append(acc, cur))
    ELSE IF s[i] \in Digits
         THEN FindDigitRuns(s, i + 1, Append(cur, s[i]), acc)
         ELSE FindDigitRuns(s, i + 1, <<>>,
                            IF cur = <<>> THEN acc ELSE Append(acc, cur))

findall_digits(s) == FindDigitRuns(s, 1, <<>>, <<>>)

RECURSIVE DecimalValue(_)
\* float(run) of a digit run
DecimalValue(run) ==
    IF run = <<>> THEN 0
    ELSE 10 * DecimalValue(SubSeq(run, 1, Len(run) - 1)) + DigitVal(run[Len(run)])

\* a plausible slip: the lower bound instead of the midpoint
extract_midpoint_first(val) ==
    IF val = NoText THEN NaN
    ELSE LET numbers == findall_digits(val)
         IN  IF Len(numbers) >= 1 THEN Num(DecimalValue(numbers[1])) ELSE NaN

\* parse_income_range.extract_midpoint
extract_midpoint(val) ==
    IF val = NoText THEN NaN
    ELSE LET numbers == findall_digits(val)
         IN  IF Len(numbers) >= 2
             THEN FDiv(FAdd(Num(DecimalValue(numbers[1])),
                            Num(DecimalValue(numbers[2]))), Num(2))
             ELSE IF Len(numbers) = 1
                  THEN Num(DecimalValue(numbers[1]))
                  ELSE NaN

parse_income_range(series) ==
    [i \in 1..Len(series) |-> extract_midpoint(series[i])]

\* a plausible "fix": a zero height gives a missing bmi
calculate_bmi_cell_guarded(height_cm, weight_kg) ==
    IF IsFinite(height_cm) /\ height_cm.num = 0 THEN NaN
    ELSE LET height_m == FDiv(height_cm, Num(100))
         IN  FDiv(weight_kg, FMul(height_m, height_m))

\* calculate_bmi on one row
calculate_bmi_cell(height_cm, weight_kg) ==
    LET height_m == FDiv(height_cm, Num(100))
    IN  FDiv(weight_kg, FMul(height_m, height_m))

\* calculate_bmi on two aligned series
calculate_bmi(height_cm, weight_kg) ==
    [i \in 1..Len(height_cm) |-> calculate_bmi_cell(height_cm[i], weight_kg[i])]

UpperChars ==
    <<"A", "B", "C", "D", "E", "F", "G", "H", "I", "J", "K", "L", "M", "N", "O", "P", "Q", "R", "S", "T", "U", "V", "W", "X", "Y", "Z", "Ä", "Ö", "Ü">>

LowerChars ==
    <<"a", "b", "c", "d", "e", "f", "g", "h", "i", "j", "k", "l", "m", "n", "o", "p", "q", "r", "s", "t", "u", "v", "w", "x", "y", "z", "ä", "ö", "ü">>

\* str.lower() / str.upper() of one character
LowerChar(c) ==
    IF \E i \in 1..Len(UpperChars) : UpperChars[i] = c
    THEN LowerChars[CHOOSE i \in 1..Len(UpperChars) : UpperChars[i] = c]
    ELSE c

UpperChar(c) ==
    IF \E i \in 1..Len(LowerChars) : LowerChars[i] = c
    THEN UpperChars[CHOOSE i \in 1..Len(LowerChars) : LowerChars[i] = c]
    ELSE c

\* the alternatives of 'Universität|Hochschule|Bachelor|Master|Diplom|Promotion'
degree_pattern ==
    << <<"U", "n", "i", "v", "e", "r", "s", "i", "t", "ä", "t">>,
       <<"H", "o", "c", "h", "s", "c", "h", "u", "l", "e">>,
       <<"B", "a", "c", "h", "e", "l", "o", "r">>,
       <<"M", "a", "s", "t", "e", "r">>,
       <<"D", "i", "p", "l", "o", "m">>,
       <<"P", "r", "o", "m", "o", "t", "i", "o", "n">> >>

RECURSIVE MatchHere(_, _, _, _, _)
\* does pattern word w, from its k-th character on, match text at pos + k - 1
MatchHere(text, pos, w, k, ignorecase) ==
    IF k > Len(w) THEN TRUE
    ELSE IF pos + k - 1 > Len(text) THEN FALSE
    ELSE LET t == text[pos + k - 1]
         IN  IF (IF ignorecase THEN LowerChar(t) = LowerChar(w[k]) ELSE t = w[k])
             THEN MatchHere(text, pos, w, k + 1, ignorecase)
             ELSE FALSE

RECURSIVE SearchFrom(_, _, _, _)
\* re.search of an alternation: the first position where an alternative matches
SearchFrom(text, pos, alternatives, ignorecase) ==
    IF pos > Len(text) THEN FALSE
    ELSE IF \E a \in 1..Len(alternatives) :
                MatchHere(text, pos, alternatives[a], 1, ignorecase)
         THEN TRUE
         ELSE SearchFrom(text, pos + 1, alternatives, ignorecase)

\* a plausible slip: case=False forgotten
str_contains_cased(text, alternatives, ignorecase, na) ==
    IF text = NoText THEN na
    ELSE SearchFrom(text, 1, alternatives, FALSE)

\* Series.str.contains(pat, case=..., na=...) on one cell
str_contains(text, alternatives, ignorecase, na) ==
    IF text = NoText THEN na
    ELSE SearchFrom(text, 1, alternatives, ignorecase)

\* df['Q191'].str.contains(..., case=False, na=False).astype(int)
has_university_degree(series) ==
    [i \in 1..Len(series) |->
        IF str_contains(series[i], degree_pattern, TRUE, FALSE)
        THEN Num(1) ELSE Num(0)]

\* the .str accessor exists only on a column holding strings: a column whose
\* cells are all missing is read as float64 and .str raises AttributeError
HasStrAccessor(series) == \E i \in 1..Len(series) : series[i] # NoText

-----------------------------------------------------------------------------
(* Frames.  A DataFrame is [columns, rows]: the column names in order and  *)
(* the rows in index order 0..n-1, each row a function from the column     *)
(* names to cells.  A CSV file is [header, lines], lines holding the       *)
(* fields by position.                                                     *)

LabelColumns ==
    {"ResponseId", "Q179", "Q1", "lives_with_others",
     "respondent_work_hours_cat", "Bundesland", "Kreis", "federal_state",
     "district"}

TextColumns ==
    {"Q191", "Q86", "vocational_qualification", "household_income_cat"}

\* NaN as it appears in a column of the given name
Missing(col) ==
    IF col \in LabelColumns THEN NA
    ELSE IF col \in TextColumns THEN NoText
    ELSE NaN

\* Series.isnull / isna on the cell of a column
IsMissing(col, cell) == cell = Missing(col)

Range(seq) == {seq[i] : i \in 1..Len(seq)}

IndexOf(seq, x) == CHOOSE i \in 1..Len(seq) : seq[i] = x

\* the subsequence of seq whose elements are in S
RECURSIVE Filter(_, _)
Filter(seq, S) ==
    IF seq = <<>> THEN <<>>
    ELSE IF Head(seq) \in S THEN <<Head(seq)>> \o Filter(Tail(seq), S)
    ELSE Filter(Tail(seq), S)

\* a <= b for finite numeric cells
CellLeq(a, b) == a.num * b.den <= b.num * a.den

\* df[col]: the column as a series
Column(frame, col) == [i \in 1..Len(frame.rows) |-> frame.rows[i][col]]

EmptyFrame == [columns |-> <<>>, rows |-> <<>>]

\* DataFrame.to_csv(path, index=False): header line, then one line per row
\* with the fields in column order; the index is not written
to_csv(frame) ==
    [header |-> frame.columns,
     lines |-> [i \in 1..Len(frame.rows) |->
                  [j \in 1..Len(frame.columns) |-> frame.rows[i][frame.columns[j]]]]]

\* pd.read_csv(path): the columns named by the header, a fresh RangeIndex
read_csv(file) ==
    [columns |-> file.header,
     rows |-> [i \in 1..Len(file.lines) |->
                 [c \in Range(file.header) |-> file.lines[i][IndexOf(file.header, c)]]]]

\* df.iloc[n:].reset_index(drop=True)
iloc_from(frame, n) ==
    [columns |-> frame.columns,
     rows |-> IF Len(frame.rows) <= n THEN <<>>
              ELSE SubSeq(frame.rows, n + 1, Len(frame.rows))]

-----------------------------------------------------------------------------
(* clean_exogenous_data.py: clean_exogenous_dataset *)

CleanColumns ==
    <<"ResponseId", "lives_with_others", "respondent_work_hours",
      "respondent_work_hours_cat", "num_children", "num_partners",
      "num_parents", "num_siblings", "zip_code", "vocational_qualification",
      "has_university_degree", "height_cm", "weight_kg", "bmi",
      "household_income", "household_income_cat">>

\* the raw columns clean_exogenous_dataset reads from input_file
RawColumns ==
    <<"ResponseId", "Q179", "Q4_4", "Q4_2", "Q4_3", "Q4_5", "Q120", "Q191",
      "Q82_1", "Q83_1", "Q86">>

\* a plausible slip: one header row skipped instead of two
q1_rows_skip_one(frame) == Column(iloc_from(frame, 1), "Q1")

\* df_original.iloc[2:].reset_index(drop=True)['Q1']
q1_rows(frame) == Column(iloc_from(frame, 2), "Q1")

\* df_clean[col] = series: the series is aligned on the index of df_clean;
\* an index the series lacks gives a missing cell, extra entries are dropped
AlignTo(n, series, missing) ==
    [i \in 1..n |-> IF i <= Len(series) THEN series[i] ELSE missing]

\* q1_data == 'Nein', as a boolean series on the index of q1_data
lives_alone_of(q1) == [i \in 1..Len(q1) |-> q1[i] = "Nein"]

\* df_clean.loc[mask, ...] accepts a boolean series only if it covers the
\* whole index of df_clean (otherwise IndexingError: unalignable indexer)
Alignable(n, mask) == Len(mask) >= n

\* a plausible slip: every missing count filled, whatever the indicator
fill_living_alone_all(series, lives_alone) ==
    [i \in 1..Len(series) |-> IF isna(series[i]) THEN Num(0) ELSE series[i]]

\* df_clean.loc[lives_alone, col] = df_clean.loc[lives_alone, col].fillna(0)
fill_living_alone(series, lives_alone) ==
    [i \in 1..Len(series) |->
        IF lives_alone[i] /\ isna(series[i]) THEN Num(0) ELSE series[i]]

\* q1_data.map({'Ja': 'Yes', 'Nein': 'No'})
lives_with_others_of(q1) ==
    [i \in 1..Len(q1) |-> DictGet(q1_mapping, q1[i], NA)]

\* could the body of clean_exogenous_dataset (lines 164-250) run to the end
CleanBuildOk(frame, q1) ==
    /\ Range(RawColumns) \subseteq Range(frame.columns)
    /\ Alignable(Len(frame.rows), lives_alone_of(q1))
    /\ HasStrAccessor(Column(frame, "Q191"))

\* df_clean as built by lines 164-250 from df and q1_data
BuildClean(frame, q1) ==
    LET n == Len(frame.rows)
        lives_alone == lives_alone_of(q1)
        lwo == AlignTo(n, lives_with_others_of(q1), NA)
        hours == encode_respondent_work_hours(Column(frame, "Q179"))
        children == fill_living_alone(Column(frame, "Q4_4"), lives_alone)
        partners == fill_living_alone(Column(frame, "Q4_2"), lives_alone)
        parents == fill_living_alone(Column(frame, "Q4_3"), lives_alone)
        siblings == fill_living_alone(Column(frame, "Q4_5"), lives_alone)
        degree == has_university_degree(Column(frame, "Q191"))
        bmi == calculate_bmi(Column(frame, "Q82_1"), Column(frame, "Q83_1"))
        income == parse_income_range(Column(frame, "Q86"))
    IN  [columns |-> CleanColumns,
         rows |-> [i \in 1..n |->
            [c \in Range(CleanColumns) |->
                CASE c = "ResponseId" -> frame.rows[i]["ResponseId"]
                  [] c = "lives_with_others" -> lwo[i]
                  [] c = "respondent_work_hours" -> hours[i]
                  [] c = "respondent_work_hours_cat" -> frame.rows[i]["Q179"]
                  [] c = "num_children" -> children[i]
                  [] c = "num_partners" -> partners[i]
                  [] c = "num_parents" -> parents[i]
                  [] c = "num_siblings" -> siblings[i]
                  [] c = "zip_code" -> frame.rows[i]["Q120"]
                  [] c = "vocational_qualification" -> frame.rows[i]["Q191"]
                  [] c = "has_university_degree" -> degree[i]
                  [] c = "height_cm" -> frame.rows[i]["Q82_1"]
                  [] c = "weight_kg" -> frame.rows[i]["Q83_1"]
                  [] c = "bmi" -> bmi[i]
                  [] c = "household_income" -> income[i]
                  [] c = "household_income_cat" -> frame.rows[i]["Q86"]]]]

\* var_descriptions of generate_data_dictionary, for the modelled columns
clean_descriptions ==
    [c \in Range(CleanColumns) |->
        CASE c = "ResponseId" -> "Unique survey response identifier"
          [] c = "lives_with_others" -> "Lives with others in household (Yes/No)"
          [] c = "respondent_work_hours" -> "Respondent's weekly work hours (numeric midpoint)"
          [] c = "respondent_work_hours_cat" -> "Respondent's weekly work hours (categorical)"
          [] c = "num_children" -> "Number of children in household (0 if living alone)"
          [] c = "num_partners" -> "Number of partners in household (0 if living alone)"
          [] c = "num_parents" -> "Number of parents in household (0 if living alone)"
          [] c = "num_siblings" -> "Number of siblings in household (0 if living alone)"
          [] c = "zip_code" -> "Zip code of residence"
          [] c = "vocational_qualification" -> "Vocational qualification (text)"
          [] c = "has_university_degree" -> "Has university degree (1=Yes, 0=No)"
          [] c = "height_cm" -> "Height in centimeters"
          [] c = "weight_kg" -> "Weight in kilograms"
          [] c = "bmi" -> "Body Mass Index (calculated)"
          [] c = "household_income" -> "Monthly household net income (euros, midpoint)"
          [] c = "household_income_cat" -> "Monthly household net income (categorical)"]

\* the number of missing cells of a column: df[col].isnull().sum()
MissingCount(frame, col) ==
    Cardinality({i \in 1..Len(frame.rows) : IsMissing(col, frame.rows[i][col])})

\* the cells of a column that are not missing, in row order
NonMissingCells(frame, col) ==
    Filter(Column(frame, col), Range(Column(frame, col)) \ {Missing(col)})

\* df[col].dtype as the generators test it: "numeric" stands for int64 and
\* float64, which they treat alike.  A column of numbers is numeric; a column
\* of text read by read_csv is object if a cell holds text, and float64 if
\* every cell is missing (the tables of the model have at least one row)
inferred_dtype(frame, col) ==
    IF /\ col \in LabelColumns \cup TextColumns
       /\ NonMissingCells(frame, col) # <<>>
    THEN "object"
    ELSE "numeric"

\* the dtypes of df_clean: a column copied from df keeps the inferred dtype;
\* the map with the string values 'Yes' and 'No' gives an object column
clean_dtype(frame, col) ==
    IF col = "lives_with_others" THEN "object" ELSE inferred_dtype(frame, col)

RECURSIVE SumCells(_)
\* Series.sum of float64 cells
SumCells(cells) ==
    IF cells = <<>> THEN Num(0) ELSE FAdd(Head(cells), SumCells(Tail(cells)))

\* a <= b for float64 cells that are not NaN
FLeq(a, b) ==
    \/ a = NegInf
    \/ b = PosInf
    \/ IsFinite(a) /\ IsFinite(b) /\ CellLeq(a, b)

\* mean, min and max of a column, missing cells skipped; all three are NaN
\* for a column without values (std is left out: it is not rational)
summary_statistics(cells) ==
    [mean |-> FDiv(SumCells(cells), Num(Len(cells))),
     min |-> IF cells = <<>> THEN NaN
             ELSE CHOOSE x \in Range(cells) : \A y \in Range(cells) : FLeq(x, y),
     max |-> IF cells = <<>> THEN NaN
             ELSE CHOOSE x \in Range(cells) : \A y \in Range(cells) : FLeq(y, x)]

\* the number of cells of a series equal to v
CountOf(series, v) == Cardinality({i \in 1..Len(series) : series[i] = v})

\* the position at which v first appears in a series
FirstIndex(series, v) ==
    CHOOSE i \in 1..Len(series) :
        series[i] = v /\ \A j \in 1..(i - 1) : series[j] # v

\* df[col].nunique(): the distinct values, missing cells not counted
nunique(series, missing) == Cardinality(Range(series) \ {missing})

\* a plausible slip: value_counts(sort=False) lists the values in the order
\* in which they first appear
value_counts_unsorted(series, missing) ==
    LET values == Range(series) \ {missing}
        Before(w, v) == FirstIndex(series, w) < FirstIndex(series, v)
    IN  [k \in 1..Cardinality(values) |->
            LET v == CHOOSE x \in values :
                        Cardinality({w \in values : Before(w, x)}) = k - 1
            IN  [value |-> v, count |-> CountOf(series, v)]]

\* df[col].value_counts(): the values that are not missing with the number
\* of their cells, the most frequent first; equally frequent values are
\* taken in the order in which they first appear
value_counts(series, missing) ==
    LET values == Range(series) \ {missing}
        Before(w, v) ==
            \/ CountOf(series, w) > CountOf(series, v)
            \/ /\ CountOf(series, w) = CountOf(series, v)
               /\ FirstIndex(series, w) < FirstIndex(series, v)
    IN  [k \in 1..Cardinality(values) |->
            LET v == CHOOSE x \in values :
                        Cardinality({w \in values : Before(w, x)}) = k - 1
            IN  [value |-> v, count |-> CountOf(series, v)]]

\* the most distinct values a column may have for its counts to be listed
ValueCountLimit == 10

\* the section of one column in a data dictionary (the body of the loop over
\* df.columns): stats, unique and value_counts are <<>> when the lines are
\* not written.  Only update_data_dictionary guards the statistics with
\* notna().sum() > 0
DictionarySection(frame, col, descriptions, dtype, guarded) ==
    LET series == Column(frame, col)
        present == NonMissingCells(frame, col)
    IN  [name |-> col,
         description |-> DictGet(descriptions, col, "No description"),
         type |-> dtype,
         missing |-> MissingCount(frame, col),
         non_missing |-> Len(present),
         stats |-> IF dtype = "numeric" /\ (guarded => Len(present) > 0)
                   THEN <<summary_statistics(present)>>
                   ELSE <<>>,
         unique |-> IF dtype = "object"
                    THEN <<nunique(series, Missing(col))>>
                    ELSE <<>>,
         value_counts |-> IF /\ dtype = "object"
                             /\ nunique(series, Missing(col)) <= ValueCountLimit
                          THEN <<value_counts(series, Missing(col))>>
                          ELSE <<>>]

\* generate_data_dictionary(df, output_file): the text written
generate_data_dictionary(frame) ==
    [title |-> "DATA DICTIONARY - Cleaned Exogenous Variables Dataset",
     sections |-> [j \in 1..Len(frame.columns) |->
                     DictionarySection(frame, frame.columns[j], clean_descriptions,
                                       clean_dtype(frame, frame.columns[j]), FALSE)]]

-----------------------------------------------------------------------------
(* merge_regional_data.py *)

RegionColumns ==
    <<"ResponseId", "PLZ", "Bundesland", "Kreis", "Stadt.Dummy", "EW.km2",
      "Rural.Dummy", "EW", "Metropol.Dummy", "Unnamed: 9">>

regional_cols ==
    <<"PLZ", "Bundesland", "Kreis", "Stadt.Dummy", "EW.km2", "Rural.Dummy",
      "EW", "Metropol.Dummy">>

new_vars ==
    <<"federal_state", "district", "is_city", "population_density",
      "is_rural", "population", "is_metropolitan">>

\* pd.read_csv(regions_file, encoding=...) does not raise UnicodeDecodeError:
\* every byte sequence is latin-1 text, the other two codecs reject some
Decodes(bytes, encoding) ==
    CASE encoding = "utf-8" -> bytes.utf8
      [] encoding = "latin-1" -> TRUE
      [] encoding = "cp1252" -> bytes.cp1252

\* a plausible slip: cp1252 tried before latin-1
encodings_tried_cp1252_first(bytes) ==
    IF Decodes(bytes, "utf-8") THEN <<"utf-8">>
    ELSE IF Decodes(bytes, "cp1252") THEN <<"utf-8", "cp1252">>
    ELSE <<"utf-8", "cp1252", "latin-1">>

\* lines 43-49: the nested try/except UnicodeDecodeError, as the encodings
\* read_csv is called with
encodings_tried(bytes) ==
    IF Decodes(bytes, "utf-8") THEN <<"utf-8">>
    ELSE IF Decodes(bytes, "latin-1") THEN <<"utf-8", "latin-1">>
    ELSE <<"utf-8", "latin-1", "cp1252">>

\* the columns= argument of rename
rename_map ==
    [c \in Range(regional_cols) |->
        CASE c = "PLZ" -> "region_plz"
          [] c = "Bundesland" -> "federal_state"
          [] c = "Kreis" -> "district"
          [] c = "Stadt.Dummy" -> "is_city"
          [] c = "EW.km2" -> "population_density"
          [] c = "Rural.Dummy" -> "is_rural"
          [] c = "EW" -> "population"
          [] c = "Metropol.Dummy" -> "is_metropolitan"]

\* the region column whose cells a renamed column holds
SourceOf(renamed) == CHOOSE c \in Range(regional_cols) : rename_map[c] = renamed

\* columns.str.contains('^Unnamed')
IsUnnamed(col) == col \in {"Unnamed: 9"}

\* frame[cols]: the projection on the columns kept, in the order given
Project(frame, cols) ==
    [columns |-> cols,
     rows |-> [i \in 1..Len(frame.rows) |->
                 [c \in Range(cols) |-> frame.rows[i][c]]]]

\* lines 55-56: drop the 'Unnamed' columns, then dropna(axis=1, how='all')
strip_regions(frame) ==
    LET named == {c \in Range(frame.columns) : ~IsUnnamed(c)}
        kept == {c \in named :
                   \E i \in 1..Len(frame.rows) : ~IsMissing(c, frame.rows[i][c])}
    IN  Project(frame, Filter(frame.columns, kept))

RECURSIVE SortCells(_)
\* the cells of S in ascending order
SortCells(S) ==
    IF S = {} THEN <<>>
    ELSE LET m == CHOOSE x \in S : \A y \in S : CellLeq(x, y)
         IN  <<m>> \o SortCells(S \ {m})

\* the rows of frame whose key cell is k, in row order
GroupRows(frame, key, k) ==
    Filter(frame.rows, {r \in Range(frame.rows) : r[key] = k})

\* GroupBy.first() on one column of one group: the first cell that is not
\* missing, and a missing cell if the group has none
FirstNonNull(rows, col) ==
    IF \E i \in 1..Len(rows) : ~IsMissing(col, rows[i][col])
    THEN rows[CHOOSE i \in 1..Len(rows) :
                /\ ~IsMissing(col, rows[i][col])
                /\ \A j \in 1..(i - 1) : IsMissing(col, rows[j][col])][col]
    ELSE Missing(col)

\* a plausible slip: groupby(..., dropna=False) keeps the group of the
\* rows without a postal code
groupby_first_keepna(frame, key) ==
    LET keys == {frame.rows[i][key] : i \in 1..Len(frame.rows)}
        order == SortCells({k \in keys : IsFinite(k)})
                    \o (IF NaN \in keys THEN <<NaN>> ELSE <<>>)
        others == Filter(frame.columns, Range(frame.columns) \ {key})
    IN  [columns |-> <<key>> \o others,
         rows |-> [g \in 1..Len(order) |->
                     [c \in Range(frame.columns) |->
                        IF c = key THEN order[g]
                        ELSE FirstNonNull(GroupRows(frame, key, order[g]), c)]]]

\* df.groupby(key).first().reset_index(): one row per key that is not
\* missing, the keys ascending, the key column first
groupby_first(frame, key) ==
    LET keys == {frame.rows[i][key] : i \in 1..Len(frame.rows)} \ {NaN}
        order == SortCells(keys)
        others == Filter(frame.columns, Range(frame.columns) \ {key})
    IN  [columns |-> <<key>> \o others,
         rows |-> [g \in 1..Len(order) |->
                     [c \in Range(frame.columns) |->
                        IF c = key THEN order[g]
                        ELSE FirstNonNull(GroupRows(frame, key, order[g]), c)]]]

\* df_regions_agg[regional_cols].copy().rename(columns=...)
select_and_rename(frame) ==
    [columns |-> [j \in 1..Len(regional_cols) |-> rename_map[regional_cols[j]]],
     rows |-> [i \in 1..Len(frame.rows) |->
                 [c \in {rename_map[x] : x \in Range(regional_cols)} |->
                     frame.rows[i][SourceOf(c)]]]]

\* one row of a merge: the cells of the left row, then those of the right
JoinRow(l, r) ==
    [c \in DOMAIN l \cup DOMAIN r |-> IF c \in DOMAIN l THEN l[c] ELSE r[c]]

\* the right row of a left row without a match: all cells missing
MissingRow(cols) == [c \in Range(cols) |-> Missing(c)]

RECURSIVE JoinRows(_, _, _, _, _)
\* the rows a merge gives for the left rows from position i on
JoinRows(left, right, left_on, right_on, i) ==
    IF i > Len(left.rows) THEN <<>>
    ELSE LET l == left.rows[i]
             found == Filter(right.rows,
                             {r \in Range(right.rows) : r[right_on] = l[left_on]})
             here == IF found = <<>> THEN <<JoinRow(l, MissingRow(right.columns))>>
                     ELSE [k \in 1..Len(found) |-> JoinRow(l, found[k])]
         IN  here \o JoinRows(left, right, left_on, right_on, i + 1)

RECURSIVE InnerRows(_, _, _, _, _)
\* the rows an inner merge gives for the left rows from position i on
InnerRows(left, right, left_on, right_on, i) ==
    IF i > Len(left.rows) THEN <<>>
    ELSE LET l == left.rows[i]
             found == Filter(right.rows,
                             {r \in Range(right.rows) : r[right_on] = l[left_on]})
         IN  [k \in 1..Len(found) |-> JoinRow(l, found[k])]
                \o InnerRows(left, right, left_on, right_on, i + 1)

\* a plausible slip: how='inner'
merge_inner(left, right, left_on, right_on) ==
    [columns |-> left.columns \o right.columns,
     rows |-> InnerRows(left, right, left_on, right_on, 1)]

\* left.merge(right, left_on=..., right_on=..., how='left'): every left row
\* in left order, once per right row with an equal key (a missing key equals
\* a missing key), or once with the right columns missing
merge_left(left, right, left_on, right_on) ==
    [columns |-> left.columns \o right.columns,
     rows |-> JoinRows(left, right, left_on, right_on, 1)]

\* df.drop(col, axis=1)
drop_column(frame, col) ==
    Project(frame, Filter(frame.columns, Range(frame.columns) \ {col}))

\* var_descriptions of update_data_dictionary: those of the cleaner and the
\* seven regional ones
merged_descriptions ==
    [c \in Range(CleanColumns) \cup Range(new_vars) |->
        IF c \in Range(CleanColumns) THEN clean_descriptions[c]
        ELSE CASE c = "federal_state" -> "Federal state (Bundesland) based on postal code"
               [] c = "district" -> "District/county (Kreis) based on postal code"
               [] c = "is_city" -> "City indicator (1=City, 0=Not city)"
               [] c = "population_density" -> "Population density (inhabitants per km²)"
               [] c = "is_rural" -> "Rural area indicator (1=Rural, 0=Not rural)"
               [] c = "population" -> "Total population in the region"
               [] c = "is_metropolitan" -> "Metropolitan area indicator (1=Metropolitan, 0=Not metropolitan)"]

\* the dtypes of df_merged: the columns of the cleaned file have the dtype
\* read_csv infers; a text column of the region file is object (a column
\* without text was dropped from it) and stays so through the merge
merged_dtype(frame, col) ==
    IF col \in {"federal_state", "district"} THEN "object"
    ELSE inferred_dtype(frame, col)

\* update_data_dictionary(df, output_file): the text written
update_data_dictionary(frame) ==
    [title |-> "DATA DICTIONARY - Cleaned Exogenous Variables with Regional Data",
     sections |-> [j \in 1..Len(frame.columns) |->
                     DictionarySection(frame, frame.columns[j], merged_descriptions,
                                       merged_dtype(frame, frame.columns[j]), TRUE)]]

-----------------------------------------------------------------------------
(* The two scripts as processes over the file system *)

Absent == <<>>

Exists(file) == file # Absent

Content(file) == file[1]

NoFiles ==
    [cleaned |-> Absent, cleaned_dictionary |-> Absent,
     merged |-> Absent, merged_dictionary |-> Absent]

\* the script ends (normally, or by an uncaught exception): its locals die
Exit(status) ==
    /\ job' = "none"
    /\ pc' = status
    /\ df' = EmptyFrame
    /\ q1_data' = <<>>
    /\ df_clean' = EmptyFrame
    /\ df_regions' = EmptyFrame
    /\ df_merged' = EmptyFrame

inputs == <<primary, original, regions, regions_bytes>>

\* python clean_exogenous_data.py
StartClean ==
    /\ job = "none"
    /\ job' = "clean"
    /\ pc' = "load"
    /\ UNCHANGED <<inputs, tried, fs, df, q1_data, df_clean, df_regions, df_merged>>

\* lines 153-162: read the primary table and the Q1 column of the original
CleanLoad ==
    /\ job = "clean" /\ pc = "load"
    /\ IF "Q1" \in Range(original.columns)
       THEN /\ df' = primary
            /\ q1_data' = q1_rows(original)
            /\ pc' = "build"
            /\ UNCHANGED <<job, df_clean, df_regions, df_merged>>
       ELSE Exit("failed")
    /\ UNCHANGED <<inputs, tried, fs>>

\* lines 164-250: build df_clean
CleanBuild ==
    /\ job = "clean" /\ pc = "build"
    /\ IF CleanBuildOk(df, q1_data)
       THEN /\ df_clean' = BuildClean(df, q1_data)
            /\ pc' = "save"
            /\ UNCHANGED <<job, df, q1_data, df_regions, df_merged>>
       ELSE Exit("failed")
    /\ UNCHANGED <<inputs, tried, fs>>

\* a plausible slip: to_csv(..., mode='a') adds the rows to the old file
save_csv_append(old, frame) ==
    IF Exists(old)
    THEN <<[header |-> Content(old).header,
            lines |-> Content(old).lines \o to_csv(frame).lines]>>
    ELSE <<to_csv(frame)>>

\* frame.to_csv(output_file, index=False): the file is overwritten
save_csv(old, frame) == <<to_csv(frame)>>

\* line 254; the summary of lines 256-266 reads df_clean only
CleanSave ==
    /\ job = "clean" /\ pc = "save"
    /\ fs' = [fs EXCEPT !.cleaned = save_csv(fs.cleaned, df_clean)]
    /\ pc' = "dictionary"
    /\ UNCHANGED <<inputs, tried, job, df, q1_data, df_clean, df_regions, df_merged>>

\* a plausible slip: the table of a run that fails is removed
files_after_failure_cleanup(files, table) == [files EXCEPT ![table] = Absent]

\* the files a run leaves when generating the dictionary raises: no handler
\* and no finally clause is around the calls of line 270 and of line 244 of
\* the merger, so the files are as they were
files_after_failure(files, table) == files

\* line 270, then the script ends; open(output_file, 'w') of line 346 may
\* raise OSError, which nothing catches
CleanDictionary ==
    /\ job = "clean" /\ pc = "dictionary"
    /\ \E written \in BOOLEAN :
         /\ fs' = IF written
                  THEN [fs EXCEPT !.cleaned_dictionary =
                                     <<generate_data_dictionary(df_clean)>>]
                  ELSE files_after_failure(fs, "cleaned")
         /\ Exit(IF written THEN "done" ELSE "failed")
    /\ UNCHANGED <<inputs, tried>>

\* python merge_regional_data.py
StartMerge ==
    /\ job = "none"
    /\ job' = "merge"
    /\ pc' = "load"
    /\ tried' = <<>>
    /\ UNCHANGED <<inputs, fs, df, q1_data, df_clean, df_regions, df_merged>>

\* lines 34-38: read the cleaned table (FileNotFoundError if it is not there)
MergeLoad ==
    /\ job = "merge" /\ pc = "load"
    /\ IF Exists(fs.cleaned)
          /\ "zip_code" \in Range(Content(fs.cleaned).header)
       THEN /\ df' = read_csv(Content(fs.cleaned))
            /\ pc' = "regions"
            /\ UNCHANGED <<job, q1_data, df_clean, df_regions, df_merged>>
       ELSE Exit("failed")
    /\ UNCHANGED <<inputs, tried, fs>>

\* lines 40-59: read the region table with the first encoding of the chain
\* that decodes it (the UnicodeDecodeError of the last one is not caught),
\* and drop its empty columns
MergeLoadRegions ==
    /\ job = "merge" /\ pc = "regions"
    /\ tried' = encodings_tried(regions_bytes)
    /\ IF /\ Decodes(regions_bytes, tried'[Len(tried')])
          /\ "PLZ" \in Range(strip_regions(regions).columns)
       THEN /\ df_regions' = strip_regions(regions)
            /\ pc' = "aggregate"
            /\ UNCHANGED <<job, df, q1_data, df_clean, df_merged>>
       ELSE Exit("failed")
    /\ UNCHANGED <<inputs, fs>>

\* lines 61-84: one row per postal code, the eight columns, renamed
MergeAggregate ==
    /\ job = "merge" /\ pc = "aggregate"
    /\ IF Range(regional_cols) \subseteq Range(df_regions.columns)
       THEN /\ df_regions' = select_and_rename(groupby_first(df_regions, "PLZ"))
            /\ pc' = "join"
            /\ UNCHANGED <<job, df, q1_data, df_clean, df_merged>>
       ELSE Exit("failed")
    /\ UNCHANGED <<inputs, tried, fs>>

\* lines 86-125: the left merge on the postal code
MergeJoin ==
    /\ job = "merge" /\ pc = "join"
    /\ df_merged' = drop_column(merge_left(df, df_regions, "zip_code", "region_plz"),
                                "region_plz")
    /\ pc' = "save"
    /\ UNCHANGED <<inputs, tried, fs, job, df, q1_data, df_clean, df_regions>>

\* line 129; the summary of lines 131-143 reads the new columns of df_merged
MergeSave ==
    /\ job = "merge" /\ pc = "save"
    /\ fs' = [fs EXCEPT !.merged = save_csv(fs.merged, df_merged)]
    /\ pc' = "dictionary"
    /\ UNCHANGED <<inputs, tried, job, df, q1_data, df_clean, df_regions, df_merged>>

\* line 244 of __main__; open(output_file, 'w') of line 227 may raise
\* OSError, which nothing catches
UpdateDictionary ==
    /\ job = "merge" /\ pc = "dictionary"
    /\ \E written \in BOOLEAN :
         IF written
         THEN /\ fs' = [fs EXCEPT !.merged_dictionary =
                                     <<update_data_dictionary(df_merged)>>]
              /\ pc' = "report"
              /\ UNCHANGED <<job, df, q1_data, df_clean, df_regions, df_merged>>
         ELSE /\ fs' = files_after_failure(fs, "merged")
              /\ Exit("failed")
    /\ UNCHANGED <<inputs, tried>>

\* the columns of the sample printed by __main__
regional_vars ==
    <<"ResponseId", "zip_code", "federal_state", "district", "is_city",
      "is_rural", "is_metropolitan", "population_density">>

\* lines 246-254 of __main__: df_merged[regional_vars].head() is printed,
\* then the script ends
MergeReport ==
    /\ job = "merge" /\ pc = "report"
    /\ Exit(IF Range(regional_vars) \subseteq Range(df_merged.columns)
            THEN "done" ELSE "failed")
    /\ UNCHANGED <<inputs, tried, fs>>

NextClean ==
    \/ StartClean
    \/ CleanLoad
    \/ CleanBuild
    \/ CleanSave
    \/ CleanDictionary

Next ==
    \/ StartClean
    \/ CleanLoad
    \/ CleanBuild
    \/ CleanSave
    \/ CleanDictionary
    \/ StartMerge
    \/ MergeLoad
    \/ MergeLoadRegions
    \/ MergeAggregate
    \/ MergeJoin
    \/ MergeSave
    \/ UpdateDictionary
    \/ MergeReport

-----------------------------------------------------------------------------
(* Input files *)

Ids == {"R_1", "R_2"}

\* postal codes of respondents: none given, one the region samples know,
\* one they do not
Zips == {NaN, Num(10), Num(30)}

BachelorText == <<"B", "a", "c", "h", "e", "l", "o", "r">>

IncomeText == <<"5", "0", "0", "€">>

\* a household answered in full: children, partners, parents, siblings
FullHousehold == <<Num(2), Num(1), Num(0), Num(1)>>

RawRow(id, zip, hh, q179, q191, height, weight, q86) ==
    [c \in Range(RawColumns) |->
        CASE c = "ResponseId" -> id
          [] c = "Q179" -> q179
          [] c = "Q4_4" -> hh[1]
          [] c = "Q4_2" -> hh[2]
          [] c = "Q4_3" -> hh[3]
          [] c = "Q4_5" -> hh[4]
          [] c = "Q120" -> zip
          [] c = "Q191" -> q191
          [] c = "Q82_1" -> height
          [] c = "Q83_1" -> weight
          [] c = "Q86" -> q86]

PrimaryOf(rows) == [columns |-> RawColumns, rows |-> rows]

\* the original export: two lines of question text and import ids under
\* the header, then one line per respondent
OriginalOf(q1) ==
    [columns |-> <<"Q1">>,
     rows |-> <<[Q1 |-> "Leben Sie mit anderen Personen zusammen?"],
                [Q1 |-> "{ImportId:QID1}"]>>
              \o [i \in 1..Len(q1) |-> [Q1 |-> q1[i]]]]

\* the attributes of a region row: Bundesland, Kreis, Stadt.Dummy, EW.km2,
\* Rural.Dummy, EW, Metropol.Dummy
RegionAttrs ==
    {<<"Berlin", "Berlin, Stadt", Num(1), Num(4000), Num(0), Num(3600), Num(1)>>,
     <<"Bayern", "Hof", Num(0), Num(100), Num(1), Num(45), Num(0)>>,
     <<NA, "Berlin, Stadt", Num(1), Num(4000), Num(0), NaN, Num(1)>>,
     <<"Bayern", NA, NaN, Num(100), Num(1), Num(45), NaN>>}

RegionRow(id, plz, a) ==
    [c \in Range(RegionColumns) |->
        CASE c = "ResponseId" -> id
          [] c = "PLZ" -> plz
          [] c = "Bundesland" -> a[1]
          [] c = "Kreis" -> a[2]
          [] c = "Stadt.Dummy" -> a[3]
          [] c = "EW.km2" -> a[4]
          [] c = "Rural.Dummy" -> a[5]
          [] c = "EW" -> a[6]
          [] c = "Metropol.Dummy" -> a[7]
          [] c = "Unnamed: 9" -> NaN]

RegionsOf(rows) == [columns |-> RegionColumns, rows |-> rows]

RegionRowSet ==
    {RegionRow("R_1", plz, a) : plz \in {NaN, Num(10), Num(20)}, a \in RegionAttrs}

\* two region files: one with a postal code on two rows, the first of them
\* with gaps; one with a row that has no postal code
RegionSamples ==
    {RegionsOf(<<RegionRow("R_1", Num(10),
                    <<NA, "Berlin, Stadt", Num(1), Num(4000), Num(0), NaN, Num(1)>>),
                 RegionRow("R_2", Num(20),
                    <<"Bayern", "Hof", Num(0), Num(100), Num(1), Num(45), Num(0)>>),
                 RegionRow("R_3", Num(10),
                    <<"Berlin", "Berlin, Stadt", Num(1), Num(4000), Num(0), Num(3600), Num(1)>>)>>),
     RegionsOf(<<RegionRow("R_1", NaN,
                    <<"Bayern", "Hof", Num(0), Num(100), Num(1), Num(45), Num(0)>>),
                 RegionRow("R_2", Num(30),
                    <<"Berlin", "Berlin, Stadt", Num(1), Num(4000), Num(0), Num(3600), Num(1)>>)>>)}

\* three respondents: a postal code the region file may know, one it does
\* not know, none
PrimarySample ==
    PrimaryOf(<<RawRow("R_1", Num(10), FullHousehold, "21-30 Stunden",
                       BachelorText, Num(180), Num(81), IncomeText),
                RawRow("R_2", Num(30), FullHousehold, "0 Stunden",
                       BachelorText, Num(160), Num(64), IncomeText),
                RawRow("R_3", NaN, FullHousehold, NA,
                       NoText, Num(0), Num(70), NoText)>>)

\* the bytes of a region file by the codecs that decode them: plain ASCII or
\* UTF-8 text, with or without a byte cp1252 leaves undefined (0x81 is one,
\* and the second byte of a UTF-8 Cyrillic letter), and single-byte text
\* with an umlaut, with or without such a byte
RegionBytes == [utf8 : BOOLEAN, cp1252 : BOOLEAN]

PlainBytes == [utf8 |-> TRUE, cp1252 |-> TRUE]

IdleProcess ==
    /\ tried = <<>>
    /\ fs = NoFiles
    /\ job = "none"
    /\ pc = "idle"
    /\ df = EmptyFrame
    /\ q1_data = <<>>
    /\ df_clean = EmptyFrame
    /\ df_regions = EmptyFrame
    /\ df_merged = EmptyFrame

\* respondents with any identifier and postal code; the original export
\* one line short, aligned, or one line long
Init ==
    /\ \E rows \in SeqsUpTo({RawRow(id, zip, FullHousehold, "21-30 Stunden",
                                    BachelorText, Num(180), Num(81), IncomeText) :
                                id \in Ids, zip \in Zips}, MaxRows) :
         /\ primary = PrimaryOf(rows)
         /\ \E m \in {Len(rows) - 1, Len(rows), Len(rows) + 1} :
               original = OriginalOf([i \in 1..m |-> "Nein"])
    /\ regions \in RegionSamples
    /\ regions_bytes = PlainBytes
    /\ IdleProcess

Spec == Init /\ [][Next]_vars

\* any region file of up to MaxRegionRows rows
InitRegions ==
    /\ primary = PrimarySample
    /\ original = OriginalOf(<<"Ja", "Nein", "Ja">>)
    /\ \E rows \in SeqsUpTo(RegionRowSet, MaxRegionRows) : regions = RegionsOf(rows)
    /\ regions_bytes = PlainBytes
    /\ IdleProcess

SpecRegions == InitRegions /\ [][Next]_vars

\* a region file in any encoding; the original export aligned or one line
\* short
InitEncoding ==
    /\ primary = PrimarySample
    /\ original \in {OriginalOf(<<"Ja", "Nein", "Ja">>), OriginalOf(<<"Ja", "Nein">>)}
    /\ regions \in RegionSamples
    /\ regions_bytes \in RegionBytes
    /\ IdleProcess

SpecEncoding == InitEncoding /\ [][Next]_vars

\* household answers: none, all, some
HouseholdSamples ==
    {<<NaN, NaN, NaN, NaN>>, FullHousehold, <<NaN, Num(1), NaN, Num(3)>>}

Q1Values == {"Ja", "Nein", NA, "Weiß nicht"}

\* any household answers against any Q1 column of up to one line more
InitHousehold ==
    /\ \E rows \in SeqsUpTo({RawRow("R_1", Num(10), hh, "0 Stunden", BachelorText,
                                    Num(180), Num(81), IncomeText) :
                                hh \in HouseholdSamples}, MaxRows) :
         primary = PrimaryOf(rows)
    /\ \E q1 \in SeqsUpTo(Q1Values, MaxRows + 1) \cup {<<>>} : original = OriginalOf(q1)
    /\ regions = RegionsOf(<<RegionRow("R_1", Num(10),
                    <<"Bayern", "Hof", Num(0), Num(100), Num(1), Num(45), Num(0)>>)>>)
    /\ regions_bytes = PlainBytes
    /\ IdleProcess

SpecHousehold == InitHousehold /\ [][NextClean]_vars

DefaultRegions ==
    RegionsOf(<<RegionRow("R_1", Num(10),
                  <<"Bayern", "Hof", Num(0), Num(100), Num(1), Num(45), Num(0)>>)>>)

\* the original export of n respondents who all live with others
AlignedOriginal(n) == OriginalOf([i \in 1..n |-> "Ja"])

\* every one-row table over `all`, and every table of up to MaxRows rows
\* over `some`
TablesOver(all, some) == {<<r>> : r \in all} \cup SeqsUpTo(some, MaxRows)

HourLabels ==
    DOMAIN work_hours_mapping
        \cup {NA, "40 Stunden", "nicht erwerbstätig", "Mehr als 50 Stunden "}

\* any work-hours answers
InitHours ==
    /\ \E rows \in SeqsUpTo({RawRow("R_1", Num(10), FullHousehold, q179, BachelorText,
                                    Num(180), Num(81), IncomeText) :
                                q179 \in HourLabels}, MaxRows) :
         /\ primary = PrimaryOf(rows)
         /\ original = AlignedOriginal(Len(rows))
    /\ regions = DefaultRegions
    /\ regions_bytes = PlainBytes
    /\ IdleProcess

SpecHours == InitHours /\ [][NextClean]_vars

IncomeAlphabet == {"1", "0", "-", "€"}

IncomeSamples ==
    {<<"1", "0", "0", "1", "-", "1", "5", "0", "0", "€">>,
     <<"5", "0", "0", "€">>,
     <<"1", ".", "0", "0", "1", "-", "1", ".", "5", "0", "0", "€">>,
     <<"K", "e", "i", "n", "e", " ", "A", "n", "g", "a", "b", "e">>,
     NoText}

IncomeRow(q86) ==
    RawRow("R_1", Num(10), FullHousehold, "0 Stunden", BachelorText,
           Num(180), Num(81), q86)

\* any income text of up to MaxStrLen characters, and the sample answers
InitIncome ==
    /\ \E rows \in TablesOver({IncomeRow(t) : t \in SeqsUpTo(IncomeAlphabet, MaxStrLen)},
                             {IncomeRow(t) : t \in IncomeSamples}) :
         /\ primary = PrimaryOf(rows)
         /\ original = AlignedOriginal(Len(rows))
    /\ regions = DefaultRegions
    /\ regions_bytes = PlainBytes
    /\ IdleProcess

SpecIncome == InitIncome /\ [][NextClean]_vars

Heights == {NaN, Num(0), Num(160), Num(180)}

Weights == {NaN, Num(-1), Num(0), Num(64), Num(81)}

\* any heights and weights
InitBody ==
    /\ \E rows \in SeqsUpTo({RawRow("R_1", Num(10), FullHousehold, "0 Stunden",
                                    BachelorText, h, w, IncomeText) :
                                h \in Heights, w \in Weights}, MaxRows) :
         /\ primary = PrimaryOf(rows)
         /\ original = AlignedOriginal(Len(rows))
    /\ regions = DefaultRegions
    /\ regions_bytes = PlainBytes
    /\ IdleProcess

SpecBody == InitBody /\ [][NextClean]_vars

UpperText(t) == [i \in 1..Len(t) |-> UpperChar(t[i])]

LowerText(t) == [i \in 1..Len(t) |-> LowerChar(t[i])]

\* a keyword as written, in capitals, in small letters, without its first
\* and without its last character
KeywordVariants ==
    UNION {{w, UpperText(w), LowerText(w), Tail(w), SubSeq(w, 1, Len(w) - 1)} :
              w \in Range(degree_pattern)}

Pads == {<<>>} \cup SeqsUpTo({"e", " "}, MaxPad)

QualificationTexts ==
    {a \o v \o b : a \in Pads, v \in KeywordVariants, b \in Pads}

QualificationSamples ==
    {NoText,
     <<"L", "e", "h", "r", "e">>,
     <<"M", "A", "S", "T", "E", "R", " ", "o", "f", " ", "S", "c", "i", "e", "n", "c", "e">>,
     <<"M", "e", "i", "s", "t", "e", "r">>}

QualificationRow(q191) ==
    RawRow("R_1", Num(10), FullHousehold, "0 Stunden", q191,
           Num(180), Num(81), IncomeText)

\* any qualification text around a keyword or a near miss of one
InitQualification ==
    /\ \E rows \in TablesOver({QualificationRow(t) : t \in QualificationTexts},
                             {QualificationRow(t) : t \in QualificationSamples}) :
         /\ primary = PrimaryOf(rows)
         /\ original = AlignedOriginal(Len(rows))
    /\ regions = DefaultRegions
    /\ regions_bytes = PlainBytes
    /\ IdleProcess

SpecQualification == InitQualification /\ [][NextClean]_vars

\* identifiers of the respondents of a long table
IdList ==
    <<"R_1", "R_2", "R_3", "R_4", "R_5", "R_6", "R_7", "R_8", "R_9", "R_10",
      "R_11", "R_12", "R_13">>

\* the work hours of a table: the first respondent differs from all others,
\* all give the same answer, none answers
HourPatterns == {"first differs", "all alike", "none"}

HoursOf(pattern, i) ==
    CASE pattern = "first differs" ->
            (IF i = 1 THEN "0 Stunden" ELSE "21-30 Stunden")
      [] pattern = "all alike" -> "21-30 Stunden"
      [] pattern = "none" -> NA

\* tables of up to MaxDictRows respondents with distinct identifiers, the
\* income answered by all or by none
InitDictionary ==
    /\ \E n \in 1..MaxDictRows, pattern \in HourPatterns,
          income \in {IncomeText, NoText} :
         /\ primary = PrimaryOf([i \in 1..n |->
                          RawRow(IdList[((i - 1) % Len(IdList)) + 1], Num(10),
                                 FullHousehold, HoursOf(pattern, i), BachelorText,
                                 Num(180), Num(81), income)])
         /\ original = AlignedOriginal(n)
    /\ regions \in RegionSamples
    /\ regions_bytes = PlainBytes
    /\ IdleProcess

SpecDictionary == InitDictionary /\ [][Next]_vars

\* an original export without the Q1 column
OriginalWithoutQ1 ==
    [columns |-> <<"Q2">>,
     rows |-> [i \in 1..(2 + Len(PrimarySample.rows)) |-> [Q2 |-> NA]]]

\* every table complete or lacking a column the scripts read
InitColumns ==
    /\ primary \in {PrimarySample}
                      \cup {drop_column(PrimarySample, c) : c \in Range(RawColumns)}
    /\ original \in {AlignedOriginal(Len(PrimarySample.rows)), OriginalWithoutQ1}
    /\ regions \in {DefaultRegions}
                      \cup {drop_column(DefaultRegions, c) : c \in Range(regional_cols)}
    /\ regions_bytes = PlainBytes
    /\ IdleProcess

SpecColumns == InitColumns /\ [][Next]_vars

-----------------------------------------------------------------------------
(* Properties *)

\* the field of a column on line i of a CSV file
Field(file, i, col) == file.lines[i][IndexOf(file.header, col)]

\* a CSV file holds the ResponseId of the primary table, row for row
SameResponseIds(file) ==
    /\ Len(file.lines) = Len(primary.rows)
    /\ \A i \in 1..Len(primary.rows) :
          Field(file, i, "ResponseId") = primary.rows[i]["ResponseId"]

\* C1: the cleaned file and the merged file have as many rows as the primary
\* response table, and row i of each carries the ResponseId of row i of the
\* primary table: no row is added, dropped, duplicated or moved.
C1_ResponseIdPreserved ==
    /\ Exists(fs.cleaned) => SameResponseIds(Content(fs.cleaned))
    /\ Exists(fs.merged) => SameResponseIds(Content(fs.merged))

\* a merged file of two respondents with different identifiers, the first
\* with a postal code no region row has, the second with one that has
C1_Witness ==
    /\ Exists(fs.merged)
    /\ Len(primary.rows) = 2
    /\ primary.rows[1]["ResponseId"] # primary.rows[2]["ResponseId"]
    /\ primary.rows[1]["Q120"] = Num(30)
    /\ primary.rows[2]["Q120"] = Num(10)
    /\ \E i \in 1..Len(regions.rows) : regions.rows[i]["PLZ"] = Num(10)
    /\ Len(Content(fs.merged).lines) = 2

\* the first row of the raw region table with postal code plz
FirstRegionRow(plz) ==
    regions.rows[CHOOSE i \in 1..Len(regions.rows) :
                    /\ regions.rows[i]["PLZ"] = plz
                    /\ \A j \in 1..(i - 1) : regions.rows[j]["PLZ"] # plz]

\* C2: after the deduplication step every postal code is on exactly one
\* region row, and that row has, in every attribute column, the cell of the
\* first raw region row with that postal code, gaps included.
C2_DedupKeepsFirstRow ==
    (job = "merge" /\ pc = "join") =>
        \A plz \in {regions.rows[i]["PLZ"] : i \in 1..Len(regions.rows)} \ {NaN} :
            /\ Cardinality({g \in 1..Len(df_regions.rows) :
                              df_regions.rows[g]["region_plz"] = plz}) = 1
            /\ \A g \in 1..Len(df_regions.rows) :
                  df_regions.rows[g]["region_plz"] = plz =>
                     \A c \in Range(regional_cols) :
                        df_regions.rows[g][rename_map[c]] = FirstRegionRow(plz)[c]

\* the rows of the deduplicated region table with the postal code z
RegionMatches(z) ==
    {g \in 1..Len(df_regions.rows) : df_regions.rows[g]["region_plz"] = z}

\* C3: the region join is a left join.  Row i of the merged file is row i of
\* the cleaned table; its seven regional columns are all missing if its
\* zip_code is missing or on no row of the deduplicated region table, and
\* otherwise are the attributes of the one region row with that postal code.
C3_LeftJoin ==
    (job = "merge" /\ pc = "dictionary") =>
        LET m == read_csv(Content(fs.merged))
        IN  /\ Len(m.rows) = Len(df.rows)
            /\ \A i \in 1..Len(df.rows) :
                  /\ \A c \in Range(df.columns) : m.rows[i][c] = df.rows[i][c]
                  /\ LET z == df.rows[i]["zip_code"]
                     IN  IF isna(z) \/ RegionMatches(z) = {}
                         THEN \A c \in Range(new_vars) : IsMissing(c, m.rows[i][c])
                         ELSE /\ Cardinality(RegionMatches(z)) = 1
                              /\ \A g \in RegionMatches(z), c \in Range(new_vars) :
                                    m.rows[i][c] = df_regions.rows[g][c]

\* a merge of a respondent whose postal code has a region row, one whose
\* postal code has none and one without postal code, against a region file
\* that has a row without postal code
C3_Witness ==
    /\ job = "merge" /\ pc = "dictionary"
    /\ \E i \in 1..Len(df.rows) :
          /\ RegionMatches(df.rows[i]["zip_code"]) # {}
          /\ \E c \in Range(new_vars) :
                ~IsMissing(c, Field(Content(fs.merged), i, c))
    /\ \E i \in 1..Len(df.rows) :
          /\ ~isna(df.rows[i]["zip_code"])
          /\ RegionMatches(df.rows[i]["zip_code"]) = {}
    /\ \E i \in 1..Len(df.rows) : isna(df.rows[i]["zip_code"])
    /\ \E r \in 1..Len(regions.rows) :
          /\ isna(regions.rows[r]["PLZ"])
          /\ ~IsMissing("Bundesland", regions.rows[r]["Bundesland"])

\* the Q1 cell of respondent i: line i of the original export after its
\* first two lines (missing if the export ends before)
Q1Of(i) ==
    IF i + 2 <= Len(original.rows) THEN original.rows[i + 2]["Q1"] ELSE NA

household_columns ==
    {<<"Q4_4", "num_children">>, <<"Q4_2", "num_partners">>,
     <<"Q4_3", "num_parents">>, <<"Q4_5", "num_siblings">>}

\* C4: each of the four household counts is 0 in the cleaned file if the
\* respondent's Q1 is 'Nein' and the raw count is missing, and is the raw
\* count (missing if that is missing) in every other case.
C4_ConditionalImputation ==
    Exists(fs.cleaned) =>
        \A i \in 1..Len(primary.rows), p \in household_columns :
            Field(Content(fs.cleaned), i, p[2]) =
                IF Q1Of(i) = "Nein" /\ isna(primary.rows[i][p[1]])
                THEN Num(0)
                ELSE primary.rows[i][p[1]]

\* a cleaned file with a missing count of someone living alone, a missing
\* count of someone living with others and a missing count of someone
\* whose Q1 is missing or unknown
C4_Witness ==
    /\ Exists(fs.cleaned)
    /\ \E i \in 1..Len(primary.rows) :
          Q1Of(i) = "Nein" /\ isna(primary.rows[i]["Q4_4"])
    /\ \E i \in 1..Len(primary.rows) :
          Q1Of(i) \notin {"Nein", "Ja"} /\ isna(primary.rows[i]["Q4_3"])
          /\ isna(Field(Content(fs.cleaned), i, "num_parents"))

\* C9: a run of either script leaves every output file that exists already
\* with the content it has: with the input files unchanged, a second run
\* writes what the first wrote.
C9_Idempotent ==
    [][\A f \in DOMAIN fs : Exists(fs[f]) => fs'[f] = fs[f]]_vars

\* the merge script has written its table a second time
C9_Witness ==
    /\ job = "merge" /\ pc = "dictionary"
    /\ Exists(fs.merged_dictionary)
    /\ Len(Content(fs.merged).lines) = 2
    /\ Exists(fs.cleaned_dictionary)

\* C10: lives_with_others of row i of the cleaned file, and the decision to
\* fill its household counts, come from line i of the original export after
\* its first two lines: 'Ja' gives 'Yes', 'Nein' gives 'No', anything else
\* gives a missing cell, and a missing count is filled exactly if that line
\* says 'Nein'.
C10_PositionalIndicator ==
    Exists(fs.cleaned) =>
        \A i \in 1..Len(primary.rows) :
            /\ Field(Content(fs.cleaned), i, "lives_with_others") =
                  (CASE Q1Of(i) = "Ja" -> "Yes"
                     [] Q1Of(i) = "Nein" -> "No"
                     [] OTHER -> NA)
            /\ isna(primary.rows[i]["Q4_4"]) =>
                  (Field(Content(fs.cleaned), i, "num_children") = Num(0)
                      <=> Q1Of(i) = "Nein")

\* a cleaned file of two respondents whose Q1 lines differ, one of them
\* neither 'Ja' nor 'Nein', from an export with a line more than respondents
C10_Witness ==
    /\ Exists(fs.cleaned)
    /\ Len(primary.rows) = 2
    /\ Len(original.rows) = 5
    /\ Q1Of(1) = "Nein" /\ Q1Of(2) = "Weiß nicht"
    /\ isna(primary.rows[1]["Q4_4"])
    /\ Field(Content(fs.cleaned), 2, "lives_with_others") = NA

\* the positions of text s where a digit run starts
RunStarts(s) ==
    {i \in 1..Len(s) : s[i] \in Digits /\ (i = 1 \/ s[i - 1] \notin Digits)}

\* the last position of the digit run that starts at i
RunEnd(s, i) ==
    CHOOSE j \in i..Len(s) :
        /\ \A k \in i..j : s[k] \in Digits
        /\ j = Len(s) \/ s[j + 1] \notin Digits

RECURSIVE DigitsValue(_, _, _)
\* the number written by the digits of s from i to j
DigitsValue(s, i, j) ==
    IF j < i THEN 0 ELSE 10 * DigitsValue(s, i, j - 1) + DigitVal(s[j])

RunNumber(s, i) == DigitsValue(s, i, RunEnd(s, i))

RECURSIVE SumOfRuns(_, _)
SumOfRuns(s, starts) ==
    IF starts = {} THEN 0
    ELSE LET i == CHOOSE x \in starts : TRUE
         IN  RunNumber(s, i) + SumOfRuns(s, starts \ {i})

Least(S) == CHOOSE x \in S : \A y \in S : x <= y

\* the income the claim states for a text: the mean of all its numbers
MeanOfAllNumbers(s) ==
    LET starts == RunStarts(s)
    IN  IF s = NoText \/ starts = {} THEN NaN
        ELSE Frac(SumOfRuns(s, starts), Cardinality(starts))

\* the mean of the first two numbers of a text (the number if there is one)
MeanOfFirstTwoNumbers(s) ==
    LET starts == RunStarts(s)
    IN  IF s = NoText \/ starts = {} THEN NaN
        ELSE IF Cardinality(starts) = 1 THEN Num(RunNumber(s, Least(starts)))
        ELSE Frac(RunNumber(s, Least(starts))
                    + RunNumber(s, Least(starts \ {Least(starts)})), 2)

\* C5 as claimed: household_income is missing for a text without digits (or
\* a missing text), the number for a text with one digit run, and the mean
\* of all the numbers found for a text with two or more digit runs.
C5_MeanOfAllNumbers ==
    Exists(fs.cleaned) =>
        \A i \in 1..Len(primary.rows) :
            Field(Content(fs.cleaned), i, "household_income")
                = MeanOfAllNumbers(primary.rows[i]["Q86"])

\* C5 as amended: with two or more digit runs the result is the mean of the
\* first two numbers found; '1001-1500€' gives 1250.5 and '500€' gives 500.
C5_MeanOfFirstTwoNumbers ==
    Exists(fs.cleaned) =>
        \A i \in 1..Len(primary.rows) :
            LET t == primary.rows[i]["Q86"]
                v == Field(Content(fs.cleaned), i, "household_income")
            IN  /\ v = MeanOfFirstTwoNumbers(t)
                /\ t = <<"1", "0", "0", "1", "-", "1", "5", "0", "0", "€">> => v = Frac(2501, 2)
                /\ t = <<"5", "0", "0", "€">> => v = Num(500)

\* a cleaned file with the range '1001-1500€' and a text of three numbers
C5_Witness ==
    /\ Exists(fs.cleaned)
    /\ \E i \in 1..Len(primary.rows) :
          primary.rows[i]["Q86"] = <<"1", "0", "0", "1", "-", "1", "5", "0", "0", "€">>
    /\ \E i \in 1..Len(primary.rows) :
          /\ Cardinality(RunStarts(primary.rows[i]["Q86"])) >= 3
          /\ IsFinite(Field(Content(fs.cleaned), i, "household_income"))

\* the hours the claim states for a label
ClaimedHours(label) ==
    CASE label = "0 Stunden" -> Num(0)
      [] label = "1-10 Stunden" -> Frac(55, 10)
      [] label = "11-20 Stunden" -> Frac(155, 10)
      [] label = "21-30 Stunden" -> Frac(255, 10)
      [] label = "31-40 Stunden" -> Frac(355, 10)
      [] label = "41-50 Stunden" -> Frac(455, 10)
      [] label = "Mehr als 50 Stunden" -> Num(55)
      [] label = "Nicht erwerbstätig" -> Num(0)
      [] OTHER -> NaN

\* C6: respondent_work_hours has one value per input row, in row order: the
\* fixed value of each of the eight known labels, and a missing value for
\* any other label and for a missing one; no label makes the run fail (a
\* run fails only after it has saved the table, writing the dictionary).
C6_WorkHours ==
    /\ pc = "failed" => Exists(fs.cleaned)
    /\ Exists(fs.cleaned) =>
          /\ Len(Content(fs.cleaned).lines) = Len(primary.rows)
          /\ \A i \in 1..Len(primary.rows) :
                Field(Content(fs.cleaned), i, "respondent_work_hours")
                    = ClaimedHours(primary.rows[i]["Q179"])

\* a cleaned file with a known label after an unknown one
C6_Witness ==
    /\ Exists(fs.cleaned)
    /\ Len(primary.rows) = 2
    /\ primary.rows[1]["Q179"] = "40 Stunden"
    /\ primary.rows[2]["Q179"] = "21-30 Stunden"
    /\ Field(Content(fs.cleaned), 2, "respondent_work_hours") = Frac(51, 2)

\* C7: bmi is weight_kg / (height_cm/100)^2 on every row, unguarded: 180 cm
\* and 81 kg give 25; a height of 0 gives +-inf or NaN, which is what the
\* file holds; a missing height or weight gives a missing bmi.
C7_Bmi ==
    Exists(fs.cleaned) =>
        \A i \in 1..Len(primary.rows) :
            LET h == primary.rows[i]["Q82_1"]
                w == primary.rows[i]["Q83_1"]
                b == Field(Content(fs.cleaned), i, "bmi")
            IN  /\ (isna(h) \/ isna(w)) => isna(b)
                /\ (h = Num(180) /\ w = Num(81)) => b = Num(25)
                /\ (IsFinite(h) /\ IsFinite(w) /\ h.num # 0) =>
                      /\ IsFinite(b)
                      /\ b.num * w.den * h.num * h.num
                            = b.den * w.num * 10000 * h.den * h.den
                /\ (IsFinite(h) /\ IsFinite(w) /\ h.num = 0) =>
                      b = (IF w.num > 0 THEN PosInf
                           ELSE IF w.num < 0 THEN NegInf ELSE NaN)

\* a cleaned file with a respondent of height 0 and one of 180 cm, 81 kg
C7_Witness ==
    /\ Exists(fs.cleaned)
    /\ \E i \in 1..Len(primary.rows) :
          /\ primary.rows[i]["Q82_1"] = Num(0)
          /\ primary.rows[i]["Q83_1"] = Num(81)
          /\ Field(Content(fs.cleaned), i, "bmi") = PosInf
    /\ \E i \in 1..Len(primary.rows) :
          /\ primary.rows[i]["Q82_1"] = Num(180)
          /\ primary.rows[i]["Q83_1"] = Num(81)

\* the six substrings of the claim, in small letters
ClaimedKeywords ==
    {<<"u", "n", "i", "v", "e", "r", "s", "i", "t", "ä", "t">>,
     <<"h", "o", "c", "h", "s", "c", "h", "u", "l", "e">>,
     <<"b", "a", "c", "h", "e", "l", "o", "r">>,
     <<"m", "a", "s", "t", "e", "r">>,
     <<"d", "i", "p", "l", "o", "m">>,
     <<"p", "r", "o", "m", "o", "t", "i", "o", "n">>}

\* text t contains word w at position p, letter case ignored
ContainsAt(t, w, p) ==
    /\ p + Len(w) - 1 <= Len(t)
    /\ \A k \in 1..Len(w) : LowerChar(t[p + k - 1]) = w[k]

\* C8: has_university_degree is 0 or 1, never missing: 1 exactly if the
\* qualification text contains one of the six substrings, letter case
\* ignored, and 0 otherwise, also for a missing text.
C8_UniversityDegree ==
    Exists(fs.cleaned) =>
        \A i \in 1..Len(primary.rows) :
            LET t == primary.rows[i]["Q191"]
                d == Field(Content(fs.cleaned), i, "has_university_degree")
            IN  /\ d \in {Num(0), Num(1)}
                /\ d = Num(1) <=>
                      \E w \in ClaimedKeywords, p \in 1..Len(t) : ContainsAt(t, w, p)

\* a cleaned file with a missing text and a keyword in capitals
C8_Witness ==
    /\ Exists(fs.cleaned)
    /\ \E i \in 1..Len(primary.rows) :
          /\ primary.rows[i]["Q191"] = NoText
          /\ Field(Content(fs.cleaned), i, "has_university_degree") = Num(0)
    /\ \E i \in 1..Len(primary.rows) :
          /\ primary.rows[i]["Q191"] = <<"M", "A", "S", "T", "E", "R", " ", "o", "f", " ", "S", "c", "i", "e", "n", "c", "e">>
          /\ Field(Content(fs.cleaned), i, "has_university_degree") = Num(1)

\* C11: the region file is read with utf-8 first, with latin-1 only after
\* utf-8 raised a decode error and with cp1252 only after latin-1 raised one
\* too; a run that goes on uses the first encoding that decoded the file and
\* tried none after it; a file that no encoding decodes yields no output
EncodingChain == <<"utf-8", "latin-1", "cp1252">>

C11_FallbackChain ==
    /\ Len(tried) <= Len(EncodingChain)
    /\ \A k \in 1..Len(tried) : tried[k] = EncodingChain[k]
    /\ \A k \in 2..Len(tried) : ~Decodes(regions_bytes, tried[k - 1])
    /\ (job = "merge" /\ pc \in {"aggregate", "join", "save", "dictionary", "report"})
          => /\ tried # <<>>
             /\ Decodes(regions_bytes, tried[Len(tried)])
    /\ (\A k \in 1..Len(EncodingChain) : ~Decodes(regions_bytes, EncodingChain[k]))
          => ~Exists(fs.merged) /\ ~Exists(fs.merged_dictionary)

\* a region file that is not UTF-8 has been merged after the second attempt
C11_Witness ==
    /\ tried = <<"utf-8", "latin-1">>
    /\ ~regions_bytes.utf8
    /\ pc = "done"
    /\ Exists(fs.merged)
    /\ Exists(fs.merged_dictionary)

\* the distinct values of field j of a CSV file, missing fields left out
DistinctInFile(file, j) ==
    {file.lines[i][j] : i \in 1..Len(file.lines)} \ {Missing(file.header[j])}

\* the number of lines of a CSV file with the value v in field j
TimesInFile(file, j, v) ==
    Cardinality({i \in 1..Len(file.lines) : file.lines[i][j] = v})

\* a dictionary section is as claimed for column j of the table file
SectionAsClaimed(section, file, j, descriptions) ==
    LET col == file.header[j]
        values == DistinctInFile(file, j)
    IN  /\ section.name = col
        /\ section.description =
              (IF col \in DOMAIN descriptions THEN descriptions[col]
               ELSE "No description")
        /\ section.missing + section.non_missing = Len(file.lines)
        /\ section.type \in {"numeric", "object"}
        /\ section.type = "object" => col \in LabelColumns \cup TextColumns
        /\ section.stats # <<>> => section.type = "numeric"
        /\ section.value_counts # <<>>
              <=> (section.type = "object" /\ Cardinality(values) <= 10)
        /\ section.value_counts # <<>> =>
              LET counts == section.value_counts[1]
              IN  /\ Len(counts) = Cardinality(values)
                  /\ {counts[k].value : k \in 1..Len(counts)} = values
                  /\ \A k \in 1..Len(counts) :
                        counts[k].count = TimesInFile(file, j, counts[k].value)
                  /\ \A k \in 1..(Len(counts) - 1) :
                        counts[k].count >= counts[k + 1].count

DictionaryAsClaimed(dictionary, file, descriptions) ==
    /\ Len(dictionary.sections) = Len(file.header)
    /\ \A j \in 1..Len(file.header) :
          SectionAsClaimed(dictionary.sections[j], file, j, descriptions)

\* C12: each dictionary has one section per column of its table, in column
\* order, with the description of the lookup or 'No description', and with
\* missing + non-missing = number of rows; statistics only in sections of
\* numeric columns; value counts, most frequent first, exactly in the
\* sections of object columns with at most 10 distinct values
C12_DictionarySections ==
    /\ Exists(fs.cleaned_dictionary) =>
          /\ Exists(fs.cleaned)
          /\ DictionaryAsClaimed(Content(fs.cleaned_dictionary),
                                 Content(fs.cleaned), clean_descriptions)
    /\ Exists(fs.merged_dictionary) =>
          /\ Exists(fs.merged)
          /\ DictionaryAsClaimed(Content(fs.merged_dictionary),
                                 Content(fs.merged), merged_descriptions)

\* both dictionaries written for a table of more than 10 respondents: no
\* counts for the identifiers, and the work hours of the first respondent
\* listed after the more frequent answer of the others
C12_Witness ==
    /\ Exists(fs.cleaned_dictionary)
    /\ Exists(fs.merged_dictionary)
    /\ Len(Content(fs.cleaned).lines) > 10
    /\ \A d \in {Content(fs.cleaned_dictionary), Content(fs.merged_dictionary)} :
          /\ d.sections[1].name = "ResponseId"
          /\ d.sections[1].type = "object"
          /\ d.sections[1].value_counts = <<>>
          /\ d.sections[4].name = "respondent_work_hours_cat"
          /\ d.sections[4].value_counts =
                <<(<<[value |-> "21-30 Stunden",
                      count |-> Len(Content(fs.cleaned).lines) - 1],
                     [value |-> "0 Stunden", count |-> 1]>>)>>
          /\ d.sections[3].stats # <<>>

\* a column the cleaner reads is absent from the primary or the original table
CleanerColumnAbsent ==
    \/ ~(Range(RawColumns) \subseteq Range(primary.columns))
    \/ "Q1" \notin Range(original.columns)

\* a column the merger reads is absent from the region table
RegionColumnAbsent == ~(Range(regional_cols) \subseteq Range(regions.columns))

\* no file of a job whose input lacks a column, and no dictionary without
\* its table
OutputsInOrder ==
    /\ CleanerColumnAbsent =>
          ~Exists(fs.cleaned) /\ ~Exists(fs.cleaned_dictionary)
    /\ RegionColumnAbsent =>
          ~Exists(fs.merged) /\ ~Exists(fs.merged_dictionary)
    /\ Exists(fs.cleaned_dictionary) => Exists(fs.cleaned)
    /\ Exists(fs.merged_dictionary) => Exists(fs.merged)

====
